---- MODULE Spec2Model ----
(***************************************************************************)
(* The inbound pipeline of the Fluxer channel plugin                       *)
(* (src/src/gateway.ts, monitorFluxerProvider): the session state built    *)
(* before the gateway connects, the Ready handler, and the MessageCreate   *)
(* handler, cut into one action per run of code between two awaits.        *)
(* Collaborators of the host runtime (core) are optional and may throw:    *)
(* their presence and their outcome are chosen at each call.               *)
(***************************************************************************)
EXTENDS Integers, Sequences, FiniteSets, TLC

VARIABLES
    cfg,                \* cfg.channels.fluxer: dmPolicy, groupPolicy, allowFrom
    started,            \* monitorFluxerProvider has built its closure state
    storeAllowFrom,     \* gateway.ts:47, what was read from the pairing store
    effectiveAllowFrom, \* gateway.ts:55, the merged allowlist of the session
    selfUserId,         \* gateway.ts:37, "null" until the first Ready event
    storeAllow,         \* the pairing store's allowFrom entries, as they are now
    pending,            \* senders with an open pairing request in the store
    approved,           \* per sender, approvals of a pairing request so far
    hs,                 \* the invocations of the MessageCreate handler
    token,              \* ctx.account.token: <<>> when it is not set, else <<text>>
    registered,         \* index.ts register has run: the plugin api is set
    restClient,         \* rest.ts:6, initRest has set the shared client
    probe,              \* probeBot of startAccount: no, called, ok, failed
    acct,               \* where startAccount and monitorFluxerProvider are: idle,
                        \* probe, monitor, readStore, connect, keepAlive, or the
                        \* promise is settled: resolved, rejected
    error,              \* what the promise of startAccount rejected with
    signal,             \* ctx.abortSignal: absent, idle, aborted
    listeners,          \* the abort listeners registered on the signal
    gateway,            \* the WebSocketManager: none, new, connecting, connected,
                        \* destroying, destroyed
    destroys            \* calls of gateway.destroy

\* the state of the account's start and of the connection
lifecycle ==
    <<token, registered, restClient, probe, acct, error, signal, listeners, gateway, destroys>>

vars == <<cfg, started, storeAllowFrom, effectiveAllowFrom, selfUserId, storeAllow, pending,
          approved, hs, lifecycle>>

----------------------------------------------------------------------------
(* Bounds and domains *)

\* Date.now() when monitorFluxerProvider starts (gateway.ts:38)
StartupMs == 20000
\* gateway.ts:39
startupGraceMs == 10000
\* deliver callbacks followed in one invocation of the handler
MaxDeliver == 1
\* timer ticks of one typing interval that are followed
MaxTicks == 1
\* approvals of a pairing request per sender
MaxApprovals == 1
\* callbacks of one typing interval that run after it was cleared
MaxLateTicks == 1

BotId == "9"
Users == {"1", "2"}
SenderIds == Users \cup {BotId}
\* a direct-message channel and a channel of a guild
DmChannels == {"d1"}
GuildChannels == {"c1"}
\* the invocations of the MessageCreate handler that are followed
Handlers == {"h1", "h2", "h3"}

\* A configured dm.allowFrom entry as written in the configuration: a JSON
\* string or a JSON number, with its decimal text.
JsStr(s) == [t |-> "string", v |-> s]
JsNum(s) == [t |-> "number", v |-> s]
\* String(x) of gateway.ts:44
String(e) == e.v

ConfigAllowChoices == {<<>>, <<JsStr("1")>>, <<JsNum("2")>>, <<JsStr("*")>>}
StoreChoices == {{}, {"1"}}

\* message text, as a sequence of tokens; "ws" is a run of whitespace
Contents == {<<"ws">>, <<"hi">>, <<"<@9>", "ws", "hi">>}
\* msg.timestamp: absent, or present with its time in ms
Timestamps == {<<>>, <<StartupMs - startupGraceMs - 1>>, <<StartupMs - startupGraceMs>>}
\* Date.now() while the session runs
NowValues == {StartupMs, StartupMs + 1}

\* the decoded MessageCreate events (gateway.ts:84-93); guild is "guild_id
\* is present", referenced_message is <<>> or holds the id of the message
\* replied to, attachments is the length of msg.attachments
Messages ==
    [id : {"m1"}, channel_id : DmChannels, author : SenderIds, bot : BOOLEAN,
     guild : {FALSE}, timestamp : Timestamps, content : Contents,
     referenced_message : {<<>>}, attachments : 0..1]
    \cup
    [id : {"m1"}, channel_id : GuildChannels, author : SenderIds, bot : BOOLEAN,
     guild : {TRUE}, timestamp : Timestamps, content : Contents,
     referenced_message : {<<>>}, attachments : 0..1]

----------------------------------------------------------------------------
(* Pure helpers *)

RECURSIVE TrimLeft(_)
TrimLeft(s) == IF s # <<>> /\ Head(s) = "ws" THEN TrimLeft(Tail(s)) ELSE s

RECURSIVE TrimRight(_)
TrimRight(s) ==
    IF s # <<>> /\ s[Len(s)] = "ws" THEN TrimRight(SubSeq(s, 1, Len(s) - 1)) ELSE s

\* String.prototype.trim
trim(s) == TrimRight(TrimLeft(s))

\* a token matched by the pattern <@!?${id}>
IsMentionOf(tok, id) == tok = "<@" \o id \o ">" \/ tok = "<@!" \o id \o ">"

\* a faulty variant: the identity is taken as known before the Ready event
hasSelfMention_probe(bodyText, self) ==
    \E i \in 1..Len(bodyText) : IsMentionOf(bodyText[i], BotId)

\* selfMentionPattern.test(bodyText), gateway.ts:149-150
hasSelfMention(bodyText, self) ==
    self # "null" /\ \E i \in 1..Len(bodyText) : IsMentionOf(bodyText[i], self)

\* bodyText.replace(/<@!?id>\s*/g, ""): drop each mention and the whitespace
\* after it; written without recursion, a text may be hundreds of tokens long
StripMentions(s, id) ==
    LET positions == [i \in 1..Len(s) |-> i]
        \* position i ends a run of whitespace that follows a mention
        AfterMention(i) ==
            \E j \in 1..(i - 1) :
                IsMentionOf(s[j], id) /\ \A k \in (j + 1)..i : s[k] = "ws"
        Kept(i) == ~IsMentionOf(s[i], id) /\ ~(s[i] = "ws" /\ AfterMention(i))
        kept == SelectSeq(positions, Kept)
    IN  [n \in 1..Len(kept) |-> s[kept[n]]]

\* gateway.ts:213-216
cleanBodyOf(bodyText, self) ==
    IF self # "null" THEN trim(StripMentions(bodyText, self)) ELSE bodyText

RECURSIVE SetToSeq(_)
SetToSeq(S) ==
    IF S = {} THEN <<>>
    ELSE LET x == CHOOSE y \in S : TRUE IN <<x>> \o SetToSeq(S \ {x})

\* gateway.ts:44
configAllowFrom(c) == [i \in DOMAIN c.allowFrom |-> String(c.allowFrom[i])]

\* gateway.ts:57-61
isAllowed(senderId) ==
    \E i \in DOMAIN effectiveAllowFrom :
        effectiveAllowFrom[i] = senderId \/ effectiveAllowFrom[i] = "*"

\* a faulty variant: configured entries override the store's
MergeAllowFrom_override(config, store) == IF config # <<>> THEN config ELSE store

\* gateway.ts:55
MergeAllowFrom(config, store) == config \o store

\* a faulty variant: the bot flag is not looked at
suppressed_noBot(m, self) == m.author = self

\* gateway.ts:95-97
suppressed(m, self) == m.author = self \/ m.bot

\* a faulty variant: the grace window is taken as seconds
IsStale_seconds(eventTs) == eventTs < StartupMs - startupGraceMs * 1000

\* gateway.ts:101
IsStale(eventTs) == eventTs < StartupMs - startupGraceMs

\* a faulty variant: the filter is left out
isEmpty_never(bodyText, attachments) == FALSE

\* gateway.ts:109
isEmpty(bodyText, attachments) == bodyText = <<>> /\ attachments = 0

\* a faulty variant: only the pairing policy looks at the allowlist
dmDenied_pairingOnly(policy, allowed) == policy = "pairing" /\ ~allowed

\* gateway.ts:115
dmDenied(policy, allowed) == policy # "open" /\ ~allowed

\* a faulty variant: the group policy is not looked at
groupDenied_never(policy) == FALSE

\* gateway.ts:145-146
groupDenied(policy) == policy = "disabled"

\* a faulty variant: the reply does not depend on created
ShouldReply_any(upsert) == upsert \in {"true", "false"}

\* gateway.ts:124
ShouldReply(upsert) == upsert = "true"

\* a faulty variant: the reply is addressed to the sender's id
ReplyTarget_sender(m) == m.author

\* gateway.ts:104, the channelId that sendMessage and triggerTyping are given
ReplyTarget(m) == m.channel_id

\* gateway.ts:274
replyToMode(c) == IF c.replyToMode = <<>> THEN "off" ELSE c.replyToMode[1]

\* a faulty variant: the mode is not looked at
replyToId_always(mode, messageId) == messageId

\* gateway.ts:282 and 317, the replyTo that a deliver callback gives sendMessage
replyToId(mode, messageId) == IF mode # "off" THEN messageId ELSE "undefined"

\* rest.ts:51-57, body.message_reference of the request that sendMessage
\* posts: <<>> when it is not set, else the message_id
messageReference(replyTo) ==
    IF replyTo # "undefined" /\ replyTo # "" THEN <<replyTo>> ELSE <<>>

\* a call of sendMessage: the channel, the caller, opts.replyTo and the
\* message_reference of the request
SendCall(to, kind, replyTo) ==
    [to |-> to, kind |-> kind, replyTo |-> replyTo, reference |-> messageReference(replyTo)]

\* a faulty variant: the id of the message itself
ctxReplyToId_own(m) == m.id

\* gateway.ts:265
ctxReplyToId(m) ==
    IF m.referenced_message = <<>> THEN "undefined" ELSE m.referenced_message[1]

----------------------------------------------------------------------------
(* One invocation of the MessageCreate handler *)

NoMsg ==
    [id |-> "m1", channel_id |-> "d1", author |-> "1", bot |-> FALSE, guild |-> FALSE,
     timestamp |-> <<>>, content |-> <<"hi">>, referenced_message |-> <<>>,
     attachments |-> 0]

\* The locals of gateway.ts:84-274 that later code reads, and what the
\* invocation has done so far.
NewRec(m) ==
    [pc |-> "run", msg |-> m,
     gate |-> "none",          \* where the filters and the policy gate ended
     upsert |-> "no",          \* upsertPairingRequest: no (not reached), absent,
                               \* threw, or the created it returned: true, false
     pairSent |-> "no",        \* sendMessage of the pairing reply: no, called,
                               \* ok, failed
     selfMention |-> FALSE,    \* hasSelfMention
     cfgMention |-> FALSE,     \* hasConfigMention
     fetchedAtt |-> 0,         \* position in msg.attachments of the one fetched
     bufBytes |-> 0,           \* size of fetched.buffer
     mediaErr |-> FALSE,       \* fetchRemoteMedia or saveMediaBuffer threw
     mediaPath |-> FALSE,      \* mediaPath is set
     ctx |-> <<>>,             \* ctxPayload, once it is built
     routed |-> FALSE,         \* sessionKey is assigned
     cleanBody |-> <<>>,
     typingActive |-> FALSE,
     interval |-> "none",      \* typingInterval: none, set, cleared
     stops |-> 0,              \* calls of stopTyping
     typings |-> 0,            \* calls of triggerTyping
     typingTo |-> {},          \* the channels triggerTyping was called with
     timers |-> 0,             \* calls of setInterval
     intervalMs |-> 0,         \* the delay typingInterval was set with
     ticks |-> 0,              \* runs of the callback of typingInterval
     lateTicks |-> 0,          \* those of them that ran after clearInterval
     fetches |-> 0,            \* calls of fetchRemoteMedia
     sends |-> <<>>,           \* calls of sendMessage, each a SendCall
     stA |-> "no", stB |-> "no", stC |-> "no",
     sysEvents |-> 0,          \* calls of enqueueSystemEvent that returned
     sysTexts |-> <<>>,        \* the part of cleanBody in the text of each
     logs |-> {},              \* log lines written, by their fixed prefix
     rtErrors |-> 0,           \* calls of runtime.error
     caught |-> FALSE]         \* the catch block of gateway.ts:352 was entered

Idle == [NewRec(NoMsg) EXCEPT !.pc = "idle"]

\* the handler's promise is settled: resolved, or rejected
Settled == {"done", "rejected"}

Log(r, line) == [r EXCEPT !.logs = @ \cup {line}]

\* gateway.ts:231-234
stopTyping(r) ==
    [r EXCEPT !.typingActive = FALSE,
              !.interval = IF @ = "set" THEN "cleared" ELSE @,
              !.stops = @ + 1]

\* gateway.ts:352-356. stopTyping is a const of the try block and is not in
\* scope in the catch block: evaluating it throws a ReferenceError, so the
\* rest of the catch block does not run and the handler's promise rejects.
OuterCatch(r) == [r EXCEPT !.caught = TRUE, !.pc = "rejected"]

Return(r) == [r EXCEPT !.pc = "done"]

\* a faulty variant: the failure is not caught where the pairing reply is made
PairingFailed_uncaught(r) == OuterCatch(r)

\* gateway.ts:135-139: the catch block around the pairing request and the
\* pairing reply, and the return that follows it
PairingFailed(r) == Return(Log(r, "pairing reply failed"))

\* String.prototype.slice(0, n)
slice(str, n) == SubSeq(str, 1, IF Len(str) < n THEN Len(str) ELSE n)

\* gateway.ts:299
VisibilitySlice == 160
\* gateway.ts:340
LastResortSlice == 500

\* gateway.ts:299, the part of cleanBody in the visibility event of stage a
StageABody(cleanBody) == slice(cleanBody, VisibilitySlice)

\* a faulty variant: the last resort cuts as the visibility event does
StageCBody_visibility(cleanBody) == slice(cleanBody, VisibilitySlice)

\* gateway.ts:340, the part of cleanBody in the system event of stage c
StageCBody(cleanBody) == slice(cleanBody, LastResortSlice)

\* gateway.ts:336-351, stage c; the outcomes of core.system.enqueueSystemEvent
StageC(r) ==
    { Return(stopTyping(Log([r EXCEPT !.stC = "ok", !.sysEvents = @ + 1,
                                      !.sysTexts = Append(@, StageCBody(r.cleanBody))],
                            "injected system event"))),
      Return(stopTyping(Log([r EXCEPT !.stC = "failed"],
                            "last resort dispatch failed"))),
      Return(stopTyping(Log([r EXCEPT !.stC = "absent"],
                            "no dispatch mechanism available"))) }

\* gateway.ts:309-312, stage b up to the await of the dispatcher
StageB(r) ==
    { [r EXCEPT !.pc = "dispB", !.stB = "called"] }
    \cup StageC([r EXCEPT !.stB = "absent"])

\* gateway.ts:273-278, stage a up to the await of the dispatcher
StageA(r) ==
    { [r EXCEPT !.pc = "dispA", !.stA = "called"] }
    \cup StageB([r EXCEPT !.stA = "absent"])

\* gateway.ts:186-210: sessionKey is assigned, by resolveAgentRoute or, when
\* that is absent or throws, by the fallback
Routed(r) == [r EXCEPT !.routed = TRUE]

\* gateway.ts:224-226 and rest.ts:107-110: triggerTyping posts to the typing
\* endpoint of the channel; its failure is swallowed
sendTyping(r) ==
    [r EXCEPT !.typings = @ + 1, !.typingTo = @ \cup {ReplyTarget(r.msg)}]

\* gateway.ts:230, the delay of setInterval
TypingIntervalMs == 5000

\* gateway.ts:222-230, the typing indicator starts
StartTyping(r) ==
    [sendTyping([r EXCEPT !.typingActive = TRUE])
        EXCEPT !.interval = "set", !.timers = @ + 1, !.intervalMs = TypingIntervalMs]

\* a faulty variant: the callback does not look at typingActive
TypingCallback_unguarded(r) == sendTyping([r EXCEPT !.ticks = @ + 1])

\* gateway.ts:228-230, the callback given to setInterval
TypingCallback(r) ==
    IF r.typingActive THEN sendTyping([r EXCEPT !.ticks = @ + 1])
    ELSE [r EXCEPT !.ticks = @ + 1]

\* gateway.ts:246-271, the fields of ctxPayload that are followed
ctxPayload(r) ==
    [BodyForAgent |-> r.cleanBody,
     RawBody |-> trim(r.msg.content),
     To |-> r.msg.channel_id,
     ChatType |-> IF r.msg.guild THEN "channel" ELSE "direct",
     MessageSid |-> r.msg.id,
     ReplyToId |-> ctxReplyToId(r.msg),
     MediaPath |-> IF r.mediaPath THEN "saved.path" ELSE "undefined"]

Envelope(r) == [r EXCEPT !.ctx = <<ctxPayload(r)>>]

\* gateway.ts:186-278: routing, body cleaning, typing start, the envelope
\* (resolveEnvelopeFormatOptions or formatAgentEnvelope may throw), stage a
AfterMedia(r, self) ==
    LET typing(q) ==
            StartTyping([q EXCEPT !.cleanBody = cleanBodyOf(trim(q.msg.content), self)])
    IN  StageA(Envelope(typing(Routed(r)))) \cup { OuterCatch(typing(Routed(r))) }

\* gateway.ts:177
DefaultMediaMaxMb == 25

\* (fluxerConfig.mediaMaxMb ?? 25) * 1024 * 1024
mediaMaxBytes(c) ==
    (IF c.mediaMaxMb = <<>> THEN DefaultMediaMaxMb ELSE c.mediaMaxMb[1]) * 1024 * 1024

\* sizes of a fetched buffer: at the ceiling, and one byte above it
BufferSizes(c) == {mediaMaxBytes(c), mediaMaxBytes(c) + 1}
\* an empty fetched buffer
EmptyBuffers == {0}

\* gateway.ts:169, the attachment that is fetched, of n >= 1 attachments
FirstAttachment(n) == 1

\* a faulty variant: the failure is not caught where the media is fetched
MediaFailed_uncaught(r, self) == { OuterCatch(r) }

\* gateway.ts:181-183: the catch block around fetchRemoteMedia and
\* saveMediaBuffer, and what follows it
MediaFailed(r, self) == AfterMedia(Log(r, "media download failed"), self)

\* gateway.ts:166-172, up to the await of fetchRemoteMedia; without both
\* collaborators of core.channel.media nothing is fetched
BeginMedia(r, self) ==
    IF r.msg.attachments > 0
    THEN { [r EXCEPT !.pc = "fetch", !.fetches = @ + 1,
                     !.fetchedAtt = FirstAttachment(r.msg.attachments)] }
         \cup AfterMedia(r, self)
    ELSE AfterMedia(r, self)

----------------------------------------------------------------------------
(* The session *)

\* the configurations of cfg.channels.fluxer that are followed; replyToMode
\* and mediaMaxMb are <<>> when the key is not set
Configs ==
    [dmPolicy : {"pairing", "allowlist"}, groupPolicy : {"open"},
     allowFrom : ConfigAllowChoices, replyToMode : {<<>>}, mediaMaxMb : {<<>>}]
    \cup [dmPolicy : {"open"}, groupPolicy : {"open"},
          allowFrom : {<<>>, <<JsStr("*")>>}, replyToMode : {<<>>}, mediaMaxMb : {<<>>}]
    \cup [dmPolicy : {"disabled"}, groupPolicy : {"open"},
          allowFrom : {<<JsStr("1")>>, <<JsStr("*")>>}, replyToMode : {<<>>},
          mediaMaxMb : {<<>>}]
    \cup [dmPolicy : {"pairing"}, groupPolicy : {"disabled"}, allowFrom : {<<>>},
          replyToMode : {<<>>}, mediaMaxMb : {<<>>}]

\* startAccount has called monitorFluxerProvider, without cancellation signal
MonitorCalled ==
    /\ token = << <<"t">> >>
    /\ registered = TRUE
    /\ restClient = TRUE
    /\ probe = "ok"
    /\ acct = "monitor"
    /\ error = "none"
    /\ signal = "absent"
    /\ listeners = {}
    /\ gateway = "new"
    /\ destroys = 0

\* the pairing policy with no configured entry
PairingConfigs ==
    [dmPolicy : {"pairing"}, groupPolicy : {"open"}, allowFrom : {<<>>},
     replyToMode : {<<>>}, mediaMaxMb : {<<>>}]

\* a faulty variant: the session starts with the identity of the bot, as
\* probeBot reports it
SessionInit_probed(configs, stores) ==
    /\ cfg \in configs
    /\ started = FALSE
    /\ storeAllowFrom = <<>>
    /\ effectiveAllowFrom = <<>>
    /\ selfUserId = BotId
    /\ storeAllow \in stores
    /\ pending = {}
    /\ approved = [u \in Users |-> 0]
    /\ hs = [h \in Handlers |-> Idle]

\* the configuration, the pairing store and the closure state of
\* monitorFluxerProvider before it has run
SessionInit(configs, stores) ==
    /\ cfg \in configs
    /\ started = FALSE
    /\ storeAllowFrom = <<>>
    /\ effectiveAllowFrom = <<>>
    /\ selfUserId = "null"
    /\ storeAllow \in stores
    /\ pending = {}
    /\ approved = [u \in Users |-> 0]
    /\ hs = [h \in Handlers |-> Idle]

\* the state when monitorFluxerProvider is called
InitWith(configs, stores) == MonitorCalled /\ SessionInit(configs, stores)

\* gateway.ts:41-55, 75-82 and 359-370, in a session without cancellation
\* signal: the allowlist is read from the pairing store (storeAllowFrom
\* stays empty when readAllowFromStore is absent or throws), merged after
\* the configured entries, the handlers are registered, gateway.connect
\* resolves and monitorFluxerProvider returns.
MonitorStart ==
    /\ ~started
    /\ acct = "monitor" /\ signal = "absent"
    /\ storeAllowFrom' \in {<<>>, SetToSeq(storeAllow)}
    /\ effectiveAllowFrom' = MergeAllowFrom(configAllowFrom(cfg), storeAllowFrom')
    /\ started' = TRUE
    /\ gateway' = "connected"
    /\ acct' = "resolved"
    /\ UNCHANGED <<cfg, selfUserId, storeAllow, pending, approved, hs>>
    /\ UNCHANGED <<token, registered, restClient, probe, error, signal, listeners, destroys>>

\* gateway.ts:75-80
Ready ==
    /\ started
    /\ selfUserId' = BotId
    /\ UNCHANGED <<cfg, started, storeAllowFrom, effectiveAllowFrom, storeAllow, pending, approved, hs>>
    /\ UNCHANGED lifecycle

\* `openclaw pairing approve fluxer <code>`: the owner approves a pending
\* request; the store moves the sender to its allowFrom entries.
Approve(u) ==
    /\ u \in pending
    /\ approved[u] < MaxApprovals
    /\ storeAllow' = storeAllow \cup {u}
    /\ pending' = pending \ {u}
    /\ approved' = [approved EXCEPT ![u] = @ + 1]
    /\ UNCHANGED <<cfg, started, storeAllowFrom, effectiveAllowFrom, selfUserId, hs>>
    /\ UNCHANGED lifecycle

\* an entry is removed from the pairing store's allowFrom entries
Revoke(u) ==
    /\ u \in storeAllow
    /\ storeAllow' = storeAllow \ {u}
    /\ UNCHANGED <<cfg, started, storeAllowFrom, effectiveAllowFrom, selfUserId, pending, approved, hs>>
    /\ UNCHANGED lifecycle

StoreUnchanged == UNCHANGED <<storeAllow, pending, approved>>
SessionUnchanged ==
    UNCHANGED <<cfg, started, storeAllowFrom, effectiveAllowFrom, selfUserId, lifecycle>>

\* a faulty variant: typingActive and typingInterval are variables of the
\* session, shared by the invocations that have started typing
Set_shared(h, r) ==
    hs' = [g \in Handlers |->
              IF g = h THEN r
              ELSE IF hs[g].interval # "none" /\ r.interval # "none"
                   THEN [hs[g] EXCEPT !.typingActive = r.typingActive,
                                      !.interval = r.interval]
                   ELSE hs[g]]

\* the locals of an invocation are its own: a step of one invocation leaves
\* those of the others as they are
Set(h, r) == hs' = [hs EXCEPT ![h] = r]

\* the filters and the policy gate end the invocation
Exit(h, r, gate) == Set(h, [r EXCEPT !.pc = "done", !.gate = gate]) /\ StoreUnchanged

\* core.channel.pairing.upsertPairingRequest of the pairing store: created
\* tells a first issuance for the sender from a repeated one
UpsertCreated(senderId) == senderId \notin pending

\* gateway.ts:82-278, from the event to the first await (or to the return)
MessageCreate(h, events) ==
    /\ started
    /\ hs[h].pc = "idle"
    /\ SessionUnchanged
    /\ \E m \in events :
        \E now \in (IF m.timestamp # <<>> THEN {StartupMs} ELSE NowValues) :
        LET r == NewRec(m)
            eventTs == IF m.timestamp # <<>> THEN m.timestamp[1] ELSE now
            isDm == ~m.guild
            senderId == m.author
            bodyText == trim(m.content)
        IN
        IF suppressed(m, selfUserId)
        THEN Exit(h, r, IF m.author = selfUserId THEN "self" ELSE "bot")
        ELSE IF IsStale(eventTs) THEN Exit(h, r, "stale")
        ELSE IF isEmpty(bodyText, m.attachments) THEN Exit(h, r, "empty")
        ELSE IF isDm /\ cfg.dmPolicy = "disabled" THEN Exit(h, r, "dm_disabled")
        ELSE IF isDm /\ dmDenied(cfg.dmPolicy, isAllowed(senderId)) THEN
            IF cfg.dmPolicy = "pairing" THEN
                \/ Exit(h, [r EXCEPT !.upsert = "absent"], "dm_denied")
                \/ /\ Set(h, [r EXCEPT !.pc = "upsert", !.gate = "dm_denied",
                                       !.upsert = IF UpsertCreated(senderId)
                                                  THEN "true" ELSE "false"])
                   /\ pending' = pending \cup {senderId}
                   /\ UNCHANGED <<storeAllow, approved>>
                \/ /\ Set(h, [r EXCEPT !.pc = "upsert", !.gate = "dm_denied",
                                       !.upsert = "threw"])
                   /\ StoreUnchanged
            ELSE Exit(h, r, "dm_denied")
        ELSE IF ~isDm /\ groupDenied(cfg.groupPolicy) THEN Exit(h, r, "grp_disabled")
        ELSE
            \* buildMentionRegexes / matchesMentionPatterns: absent or throwing
            \* leaves hasConfigMention false
            \E hasConfigMention \in (IF isDm THEN {FALSE} ELSE BOOLEAN) :
                LET selfMention == ~isDm /\ hasSelfMention(bodyText, selfUserId) IN
                IF ~isDm /\ ~selfMention /\ ~hasConfigMention
                THEN Exit(h, r, "no_mention")
                ELSE /\ \E r2 \in BeginMedia([r EXCEPT !.gate = "pass",
                                                       !.selfMention = selfMention,
                                                       !.cfgMention = hasConfigMention],
                                             selfUserId) : Set(h, r2)
                     /\ StoreUnchanged

\* gateway.ts:119-133: the pairing request has settled
UpsertReturn(h) ==
    LET r == hs[h] IN
    /\ r.pc = "upsert"
    /\ SessionUnchanged /\ StoreUnchanged
    /\ IF r.upsert = "threw"
       THEN Set(h, PairingFailed(r))
       ELSE IF ShouldReply(r.upsert)
       THEN Set(h, [r EXCEPT !.pc = "pairSend", !.pairSent = "called",
                             !.sends = Append(@, SendCall(ReplyTarget(r.msg), "pairing",
                                                          "undefined"))])
       ELSE Set(h, Return(r))

\* gateway.ts:125-139: sendMessage of the pairing reply has settled
PairSendReturn(h) ==
    LET r == hs[h] IN
    /\ r.pc = "pairSend"
    /\ SessionUnchanged /\ StoreUnchanged
    /\ \/ Set(h, Return([r EXCEPT !.pairSent = "ok"]))
       \/ Set(h, PairingFailed([r EXCEPT !.pairSent = "failed"]))

\* gateway.ts:172-183: fetchRemoteMedia has settled, with a buffer of one of
\* the sizes or with an exception
FetchReturn(h, sizes) ==
    LET r == hs[h] IN
    /\ r.pc = "fetch"
    /\ SessionUnchanged /\ StoreUnchanged
    /\ \/ \E n \in sizes : Set(h, [r EXCEPT !.pc = "save", !.bufBytes = n])
       \/ \E r2 \in MediaFailed([r EXCEPT !.mediaErr = TRUE], selfUserId) : Set(h, r2)

\* gateway.ts:173-183: saveMediaBuffer, called with fetched.buffer and
\* mediaMaxBytes(cfg), has settled
SaveReturn(h) ==
    LET r == hs[h] IN
    /\ r.pc = "save"
    /\ SessionUnchanged /\ StoreUnchanged
    /\ \/ \E r2 \in AfterMedia([r EXCEPT !.mediaPath = TRUE], selfUserId) : Set(h, r2)
       \/ \E r2 \in MediaFailed([r EXCEPT !.mediaErr = TRUE], selfUserId) : Set(h, r2)

\* gateway.ts:281-287 and 316-322: the dispatcher calls deliver, which calls
\* sendMessage
Deliver(h) ==
    LET r == hs[h]
        kind == IF r.pc = "dispA" THEN "a" ELSE "b"
        sent == [r EXCEPT !.sends =
                     Append(@, SendCall(ReplyTarget(r.msg), kind,
                                        replyToId(replyToMode(cfg), r.msg.id)))]
    IN
    /\ r.pc \in {"dispA", "dispB"}
    /\ Len(r.sends) < MaxDeliver
    /\ SessionUnchanged /\ StoreUnchanged
    /\ Set(h, sent)

\* gateway.ts:277-307: dispatchReplyWithBufferedBlockDispatcher has settled
DispAReturn(h) ==
    LET r == hs[h]
        ok == Log(stopTyping([r EXCEPT !.stA = "ok"]), "dispatched reply")
    IN
    /\ r.pc = "dispA"
    /\ SessionUnchanged /\ StoreUnchanged
    /\ \/ /\ ~r.msg.guild
          /\ Set(h, Return(ok))
       \/ /\ r.msg.guild            \* enqueueSystemEvent is absent
          /\ Set(h, Return(ok))
       \/ /\ r.msg.guild            \* enqueueSystemEvent returns
          /\ Set(h, Return([ok EXCEPT !.sysEvents = @ + 1,
                                      !.sysTexts = Append(@, StageABody(r.cleanBody))]))
       \/ /\ r.msg.guild            \* enqueueSystemEvent throws, inside the try of stage a
          /\ \E r2 \in StageB(Log(ok, "buffered dispatch failed")) : Set(h, r2)
       \/ \E r2 \in StageB(Log([r EXCEPT !.stA = "failed"], "buffered dispatch failed")) :
              Set(h, r2)

\* gateway.ts:312-334: dispatchInboundMessageWithBufferedDispatcher has settled
DispBReturn(h) ==
    LET r == hs[h] IN
    /\ r.pc = "dispB"
    /\ SessionUnchanged /\ StoreUnchanged
    /\ \/ Set(h, Return(Log(stopTyping([r EXCEPT !.stB = "ok"]),
                            "dispatched reply (fallback)")))
       \/ \E r2 \in StageC(Log([r EXCEPT !.stB = "failed"], "fallback dispatch failed")) :
              Set(h, r2)

\* gateway.ts:228-230: the interval has elapsed and its callback runs
TypingTick(h) ==
    LET r == hs[h] IN
    /\ r.pc # "idle"
    /\ r.interval = "set"
    /\ r.ticks < MaxTicks
    /\ SessionUnchanged /\ StoreUnchanged
    /\ Set(h, TypingCallback(r))

\* gateway.ts:228-234: a tick that was due when clearInterval was called,
\* on a timer runtime that still runs its callback
LateTick(h) ==
    LET r == hs[h] IN
    /\ r.interval = "cleared"
    /\ r.lateTicks < MaxLateTicks
    /\ SessionUnchanged /\ StoreUnchanged
    /\ Set(h, [TypingCallback(r) EXCEPT !.lateTicks = @ + 1])

\* what happens outside the handler
Environment ==
    \/ MonitorStart
    \/ Ready
    \/ \E u \in Users : Approve(u)
    \/ \E u \in Users : Revoke(u)

\* an invocation resumes after the await of a dispatcher, a dispatcher calls
\* back, a timer fires
Resume(h) ==
    \/ Deliver(h)
    \/ DispAReturn(h)
    \/ DispBReturn(h)
    \/ TypingTick(h)

\* an invocation resumes after an await of the media collaborator
ResumeMedia(h, sizes) ==
    \/ FetchReturn(h, sizes)
    \/ SaveReturn(h)

----------------------------------------------------------------------------
(* The start of the account and the connection *)

\* ctx.account.token: not set, empty, blank, a token, a token within blanks
Tokens == {<<>>, << <<>> >>, << <<"ws">> >>, << <<"t">> >>, << <<"ws", "t", "ws">> >>}

\* a faulty variant: the token is not trimmed
tokenMissing_untrimmed(tok) == tok = <<>> \/ tok[1] = <<>>

\* channel.ts:185-186
tokenMissing(tok) == tok = <<>> \/ trim(tok[1]) = <<>>

PipelineUnchanged == UNCHANGED <<cfg, selfUserId, storeAllow, pending, approved, hs>>
ClosureUnchanged == UNCHANGED <<started, storeAllowFrom, effectiveAllowFrom>>

\* index.ts:124-127: setFluxerApi, then the host is given the plugin
Register ==
    /\ ~registered
    /\ registered' = TRUE
    /\ PipelineUnchanged /\ ClosureUnchanged
    /\ UNCHANGED <<token, restClient, probe, acct, error, signal, listeners, gateway, destroys>>

\* channel.ts:183-196, to the throw or to the await of probeBot
StartAccount ==
    /\ registered
    /\ acct = "idle"
    /\ IF tokenMissing(token)
       THEN /\ acct' = "rejected"
            /\ error' = "Fluxer bot token is required"
            /\ UNCHANGED <<restClient, probe>>
       ELSE /\ restClient' = TRUE
            /\ probe' = "called"
            /\ acct' = "probe"
            /\ UNCHANGED error
    /\ PipelineUnchanged /\ ClosureUnchanged
    /\ UNCHANGED <<token, registered, signal, listeners, gateway, destroys>>

\* gateway.ts:55-82 and 359: the allowlist is merged, the abort listener is
\* added when a signal was given, the handlers are registered and
\* gateway.connect is called
Listen(store) ==
    /\ storeAllowFrom' = store
    /\ effectiveAllowFrom' = MergeAllowFrom(configAllowFrom(cfg), store)
    /\ listeners' = IF signal # "absent" THEN listeners \cup {"destroy"} ELSE listeners
    /\ started' = TRUE
    /\ gateway' = "connecting"
    /\ acct' = "connect"

\* channel.ts:196-214 and gateway.ts:19-50: probeBot has settled (it
\* catches its own failure); monitorFluxerProvider builds the gateway and
\* awaits readAllowFromStore or, when that is absent, goes on
ProbeReturn ==
    /\ acct = "probe"
    /\ probe' \in {"ok", "failed"}
    /\ IF ~registered
       THEN /\ acct' = "rejected"
            /\ error' = "Fluxer plugin API not initialized"
            /\ ClosureUnchanged
            /\ UNCHANGED <<listeners, gateway>>
       ELSE /\ UNCHANGED error
            /\ \/ /\ acct' = "readStore"
                  /\ gateway' = "new"
                  /\ ClosureUnchanged
                  /\ UNCHANGED listeners
               \/ Listen(<<>>)
    /\ PipelineUnchanged
    /\ UNCHANGED <<token, registered, restClient, signal, destroys>>

\* gateway.ts:50-54: readAllowFromStore has settled
StoreReturn ==
    /\ acct = "readStore"
    /\ \E store \in {<<>>, SetToSeq(storeAllow)} : Listen(store)
    /\ PipelineUnchanged
    /\ UNCHANGED <<token, registered, restClient, probe, error, signal, destroys>>

\* a faulty variant: monitorFluxerProvider returns once it is connected
keepAlive_none(sig) == "resolved"

\* gateway.ts:362-370, where monitorFluxerProvider is after the connect:
\* returned when no signal was given or the signal is aborted, else waiting
\* for the abort event
keepAlive(sig) == IF sig = "idle" THEN "keepAlive" ELSE "resolved"

\* gateway.ts:359-370: gateway.connect has settled. When it resolves, the
\* keep-alive promise resolves at once for a signal that is aborted (and
\* there is none without signal), else it adds its abort listener. What
\* connect leaves of a gateway whose destroy was called meanwhile is open.
ConnectReturn ==
    /\ acct = "connect"
    /\ \/ /\ gateway' \in (IF gateway = "connecting" THEN {"connected"}
                          ELSE {gateway, "connected"})
          /\ acct' = keepAlive(signal)
          /\ listeners' = IF acct' = "keepAlive" THEN listeners \cup {"resolve"}
                          ELSE listeners
          /\ UNCHANGED error
       \/ /\ gateway' = IF gateway = "connecting" THEN "new" ELSE gateway
          /\ acct' = "rejected"
          /\ error' = "gateway.connect rejected"
          /\ UNCHANGED listeners
    /\ PipelineUnchanged /\ ClosureUnchanged
    /\ UNCHANGED <<token, registered, restClient, probe, signal, destroys>>

\* the host aborts the signal: the listeners added so far run once, in the
\* order they were added (gateway.ts:67-70, then 368)
Abort ==
    /\ signal = "idle"
    /\ signal' = "aborted"
    /\ listeners' = {}
    /\ IF "destroy" \in listeners
       THEN destroys' = destroys + 1 /\ gateway' = "destroying"
       ELSE UNCHANGED <<destroys, gateway>>
    /\ acct' = IF "resolve" \in listeners THEN "resolved" ELSE acct
    /\ PipelineUnchanged /\ ClosureUnchanged
    /\ UNCHANGED <<token, registered, restClient, probe, error>>

\* the promise of gateway.destroy has settled (a rejection is swallowed,
\* gateway.ts:69)
DestroyDone ==
    /\ gateway = "destroying"
    /\ gateway' = "destroyed"
    /\ PipelineUnchanged /\ ClosureUnchanged
    /\ UNCHANGED <<token, registered, restClient, probe, acct, error, signal, listeners,
                   destroys>>

(* The start of one account, with or without a cancellation signal, which  *)
(* the host may abort at any time, also before the account is started      *)
InitSession ==
    /\ token \in Tokens
    /\ registered = FALSE
    /\ restClient = FALSE
    /\ probe = "no"
    /\ acct = "idle"
    /\ error = "none"
    /\ signal \in {"absent", "idle", "aborted"}
    /\ listeners = {}
    /\ gateway = "none"
    /\ destroys = 0
    /\ SessionInit(PairingConfigs, StoreChoices)

NextSession ==
    \/ Register
    \/ StartAccount
    \/ ProbeReturn
    \/ StoreReturn
    \/ ConnectReturn
    \/ Abort
    \/ DestroyDone
    \/ gateway = "connected" /\ Ready

SpecSession == InitSession /\ [][NextSession]_vars

----------------------------------------------------------------------------
(* One message, with every configuration and every event *)
Init == InitWith(Configs, StoreChoices)

Next ==
    \/ Environment
    \/ MessageCreate("h1", Messages)
    \/ UpsertReturn("h1")
    \/ PairSendReturn("h1")
    \/ ResumeMedia("h1", EmptyBuffers)
    \/ Resume("h1")

Spec == Init /\ [][Next]_vars

(* Three direct messages under the pairing policy, handled interleaved at   *)
(* the awaits, from two senders who are not in the allowlist of the session *)
(* (it is empty, and so was the pairing store when it was read). No such    *)
(* message passes the policy gate, hence no step of media or dispatch.      *)

PairingMessages ==
    [id : {"m1"}, channel_id : DmChannels, author : Users, bot : {FALSE}, guild : {FALSE},
     timestamp : {<<>>}, content : {<<"hi">>}, referenced_message : {<<>>},
     attachments : {0}]

InitPairing == InitWith(PairingConfigs, {{}})

NextPairing ==
    \/ Environment
    \/ MessageCreate("h1", PairingMessages)
    \/ hs["h1"].pc # "idle" /\ MessageCreate("h2", PairingMessages)
    \/ hs["h2"].pc # "idle" /\ MessageCreate("h3", PairingMessages)
    \/ \E h \in Handlers : UpsertReturn(h)
    \/ \E h \in Handlers : PairSendReturn(h)

SpecPairing == InitPairing /\ [][NextPairing]_vars

(* One message of a channel of a guild, under either group policy, handled *)
(* before or after the Ready event                                          *)
GroupConfigs ==
    [dmPolicy : {"open"}, groupPolicy : {"open", "disabled"}, allowFrom : {<<>>},
     replyToMode : {<<>>}, mediaMaxMb : {<<>>}]

GroupContents ==
    {<<"hi">>, <<"<@9>", "ws", "hi">>, <<"hi", "ws", "<@!9>">>, <<"<@1>", "ws", "hi">>}

GroupMessages ==
    [id : {"m1"}, channel_id : GuildChannels, author : {"1"}, bot : {FALSE}, guild : {TRUE},
     timestamp : {<<>>}, content : GroupContents, referenced_message : {<<>>},
     attachments : 0..1]

InitGroup == InitWith(GroupConfigs, {{}})

NextGroup ==
    \/ MonitorStart
    \/ Ready
    \/ MessageCreate("h1", GroupMessages)
    \/ ResumeMedia("h1", EmptyBuffers)
    \/ Resume("h1")

SpecGroup == InitGroup /\ [][NextGroup]_vars

(* One direct message under the open policy, with up to two attachments;   *)
(* the fetched buffer is at the byte ceiling of saveMediaBuffer or above it *)
MediaConfigs ==
    [dmPolicy : {"open"}, groupPolicy : {"open"}, allowFrom : {<<>>},
     replyToMode : {<<>>}, mediaMaxMb : {<<>>, <<1>>}]

MediaMessages ==
    [id : {"m1"}, channel_id : DmChannels, author : {"1"}, bot : {FALSE}, guild : {FALSE},
     timestamp : {<<>>}, content : {<<"ws">>, <<"hi">>}, referenced_message : {<<>>},
     attachments : 0..2]

InitMedia == InitWith(MediaConfigs, {{}})

NextMedia ==
    \/ MonitorStart
    \/ Ready
    \/ MessageCreate("h1", MediaMessages)
    \/ ResumeMedia("h1", BufferSizes(cfg))
    \/ Resume("h1")

SpecMedia == InitMedia /\ [][NextMedia]_vars

(* One message without attachment that passes the gate; apart from a       *)
(* leading mention its text is made of single characters, up to one more   *)
(* than the last resort keeps                                               *)
Chars(n) == [i \in 1..n |-> "x"]

DispatchContents ==
    {Chars(2), Chars(LastResortSlice), Chars(LastResortSlice + 1),
     <<"<@9>", "ws">> \o Chars(LastResortSlice + 1)}

DispatchConfigs ==
    [dmPolicy : {"open"}, groupPolicy : {"open"}, allowFrom : {<<>>},
     replyToMode : {<<>>}, mediaMaxMb : {<<>>}]

DispatchMessages ==
    [id : {"m1"}, channel_id : DmChannels, author : {"1"}, bot : {FALSE}, guild : {FALSE},
     timestamp : {<<>>}, content : DispatchContents, referenced_message : {<<>>},
     attachments : {0}]
    \cup
    [id : {"m1"}, channel_id : GuildChannels, author : {"1"}, bot : {FALSE}, guild : {TRUE},
     timestamp : {<<>>}, content : DispatchContents, referenced_message : {<<>>},
     attachments : {0}]

InitDispatch == InitWith(DispatchConfigs, {{}})

NextDispatch ==
    \/ MonitorStart
    \/ Ready
    \/ MessageCreate("h1", DispatchMessages)
    \/ Resume("h1")

SpecDispatch == InitDispatch /\ [][NextDispatch]_vars

(* One message that passes the gate, replying to another message or not,   *)
(* under each value of replyToMode                                          *)
ReplyConfigs ==
    [dmPolicy : {"open"}, groupPolicy : {"open"}, allowFrom : {<<>>},
     replyToMode : {<<>>, <<"off">>, <<"on">>, <<"first">>}, mediaMaxMb : {<<>>}]

ReplyMessages ==
    [id : {"m1"}, channel_id : DmChannels, author : {"1"}, bot : {FALSE}, guild : {FALSE},
     timestamp : {<<>>}, content : {<<"hi">>}, referenced_message : {<<>>, <<"m0">>},
     attachments : {0}]
    \cup
    [id : {"m1"}, channel_id : GuildChannels, author : {"1"}, bot : {FALSE}, guild : {TRUE},
     timestamp : {<<>>}, content : {<<"hi">>}, referenced_message : {<<>>, <<"m0">>},
     attachments : {0}]

InitReply == InitWith(ReplyConfigs, {{}})

NextReply ==
    \/ MonitorStart
    \/ Ready
    \/ MessageCreate("h1", ReplyMessages)
    \/ Resume("h1")

SpecReply == InitReply /\ [][NextReply]_vars

(* Two messages that pass the gate, of the same conversation or of two,     *)
(* the second arriving while the first is handled; their invocations run   *)
(* interleaved at the awaits                                                *)
InterleavedConfigs ==
    [dmPolicy : {"open"}, groupPolicy : {"open"}, allowFrom : {<<>>},
     replyToMode : {<<"on">>}, mediaMaxMb : {<<>>}]

InterleavedMessages(id, atts) ==
    [id : {id}, channel_id : DmChannels, author : {"1"}, bot : {FALSE}, guild : {FALSE},
     timestamp : {<<>>}, content : {<<"hi">>}, referenced_message : {<<>>},
     attachments : atts]
    \cup
    [id : {id}, channel_id : GuildChannels, author : {"2"}, bot : {FALSE}, guild : {TRUE},
     timestamp : {<<>>}, content : {<<"hi">>}, referenced_message : {<<>>},
     attachments : {0}]

InitInterleaved == InitWith(InterleavedConfigs, {{}})

NextInterleaved ==
    \/ MonitorStart
    \/ Ready
    \/ MessageCreate("h1", InterleavedMessages("m1", 0..1))
    \/ hs["h1"].pc # "idle" /\ MessageCreate("h2", InterleavedMessages("m2", {0}))
    \/ ResumeMedia("h1", EmptyBuffers)
    \/ \E h \in {"h1", "h2"} : Resume(h)

SpecInterleaved == InitInterleaved /\ [][NextInterleaved]_vars

(* One message that passes the gate, with the timer of its typing          *)
(* indicator: ticks while it is set, and a tick that runs late              *)
TypingMessages ==
    [id : {"m1"}, channel_id : DmChannels, author : {"1"}, bot : {FALSE}, guild : {FALSE},
     timestamp : {<<>>}, content : {<<"hi">>}, referenced_message : {<<>>},
     attachments : {0}]
    \cup
    [id : {"m1"}, channel_id : GuildChannels, author : {"1"}, bot : {FALSE}, guild : {TRUE},
     timestamp : {<<>>}, content : {<<"<@9>", "ws", "hi">>}, referenced_message : {<<>>},
     attachments : {0}]

InitTyping == InitWith(DispatchConfigs, {{}})

NextTyping ==
    \/ MonitorStart
    \/ Ready
    \/ MessageCreate("h1", TypingMessages)
    \/ Resume("h1")
    \/ LateTick("h1")

SpecTyping == InitTyping /\ [][NextTyping]_vars

(* The start of one account without cancellation signal, from register to  *)
(* the connected gateway, and one message that passes the gate, written by *)
(* a user or under the bot's own id, before or after the Ready event       *)
IdentityMessages ==
    [id : {"m1"}, channel_id : DmChannels, author : {"1", BotId}, bot : {FALSE},
     guild : {FALSE}, timestamp : {<<>>}, content : {<<"hi">>}, referenced_message : {<<>>},
     attachments : {0}]
    \cup
    [id : {"m1"}, channel_id : GuildChannels, author : {"1", BotId}, bot : {FALSE},
     guild : {TRUE}, timestamp : {<<>>}, content : {<<"<@9>", "ws", "hi">>},
     referenced_message : {<<>>}, attachments : {0}]

InitIdentity ==
    /\ token = << <<"t">> >>
    /\ registered = FALSE
    /\ restClient = FALSE
    /\ probe = "no"
    /\ acct = "idle"
    /\ error = "none"
    /\ signal = "absent"
    /\ listeners = {}
    /\ gateway = "none"
    /\ destroys = 0
    /\ SessionInit(DispatchConfigs, {{}})

NextIdentity ==
    \/ Register
    \/ StartAccount
    \/ ProbeReturn
    \/ StoreReturn
    \/ ConnectReturn
    \/ gateway = "connected" /\ Ready
    \/ gateway = "connected" /\ MessageCreate("h1", IdentityMessages)
    \/ Resume("h1")

SpecIdentity == InitIdentity /\ [][NextIdentity]_vars

----------------------------------------------------------------------------
(* Properties *)

Rec(h) == hs[h]
Invoked(stage) == stage \in {"called", "ok", "failed"}
Unsuccessful(stage) == stage \in {"absent", "failed"}
PairingReply(r) ==
    [to |-> r.msg.channel_id, kind |-> "pairing", replyTo |-> "undefined", reference |-> <<>>]

\* no pairing request, no outbound call, no media fetch, no routing, no
\* dispatch stage
NoSideWork(r) ==
    /\ r.upsert = "no" /\ r.sends = <<>> /\ r.typings = 0 /\ r.fetches = 0
    /\ ~r.routed /\ r.interval = "none"
    /\ r.stA = "no" /\ r.stB = "no" /\ r.stC = "no" /\ r.sysEvents = 0

\* C1: an invocation that started the typing indicator has called stopTyping
\* exactly once when it finishes, whatever the exit path.
C1_StopExactlyOnce ==
    \A h \in Handlers :
        (Rec(h).pc \in Settled /\ Rec(h).interval # "none") => Rec(h).stops = 1

\* C2: when an exception reaches the catch block of the handler, the typing
\* indicator is stopped, the error is logged and reported to runtime.error,
\* and the handler's promise is not rejected.
C2_OuterCatchCleansUp ==
    \A h \in Handlers :
        Rec(h).caught =>
            /\ Rec(h).pc = "done"
            /\ ~Rec(h).typingActive /\ Rec(h).interval = "cleared"
            /\ "handler error" \in Rec(h).logs
            /\ Rec(h).rtErrors = 1

\* C3: stage b's dispatcher is invoked only if stage a's was absent or failed,
\* stage c's enqueue only if both were, and after a dispatcher call that
\* completed successfully no later stage is invoked.
C3_FirstSuccessWins ==
    \A h \in Handlers :
        /\ Invoked(Rec(h).stB) => Unsuccessful(Rec(h).stA)
        /\ Invoked(Rec(h).stC) => Unsuccessful(Rec(h).stA) /\ Unsuccessful(Rec(h).stB)
        /\ Rec(h).stA = "ok" => ~Invoked(Rec(h).stB) /\ ~Invoked(Rec(h).stC)

\* the sender (or the wildcard) is among the configured entries and the
\* entries that the pairing store holds now
InLiveAllowlist(senderId) ==
    LET live == {String(cfg.allowFrom[i]) : i \in DOMAIN cfg.allowFrom} \cup storeAllow
    IN  senderId \in live \/ "*" \in live

\* C4: when a direct message reaches the policy gate under the pairing or the
\* allowlist policy, it passes iff the sender is in the allowlist as the
\* pairing store holds it at that time.
C4_LiveAllowlist ==
    [][\A h \in Handlers :
          ( /\ hs[h].pc = "idle" /\ hs'[h].pc # "idle"
            /\ cfg.dmPolicy \in {"pairing", "allowlist"}
            /\ ~hs'[h].msg.guild
            /\ hs'[h].gate \in {"dm_denied", "pass"} )
          => (hs'[h].gate = "pass" <=> InLiveAllowlist(hs'[h].msg.author))]_vars

ConfiguredEntries == {String(cfg.allowFrom[i]) : i \in DOMAIN cfg.allowFrom}
StoreReadEntries == {storeAllowFrom[i] : i \in DOMAIN storeAllowFrom}

\* C5: under the allowlist policy a direct message passes the gate exactly
\* when the sender id or "*" is among the configured entries or the entries
\* read from the pairing store.
C5_AllowlistUnion ==
    \A h \in Handlers :
        ( /\ cfg.dmPolicy = "allowlist" /\ ~Rec(h).msg.guild
          /\ Rec(h).gate \in {"dm_denied", "pass"} )
        => ( Rec(h).gate = "pass" <=>
               \/ Rec(h).msg.author \in ConfiguredEntries \cup StoreReadEntries
               \/ "*" \in ConfiguredEntries \cup StoreReadEntries )

\* a sender who is only in the store's entries has passed under allowlist
C5_Witness ==
    \E h \in Handlers :
        /\ cfg.dmPolicy = "allowlist" /\ ~Rec(h).msg.guild /\ Rec(h).gate = "pass"
        /\ Rec(h).msg.author \in StoreReadEntries \ ConfiguredEntries
        /\ "*" \notin ConfiguredEntries

\* a direct message that passed the self/bot, staleness and empty filters
AtDmGate(r) == ~r.msg.guild /\ r.gate \in {"dm_disabled", "dm_denied", "pass"}

\* C6: at the gate, open always proceeds; disabled always terminates, with no
\* pairing request; allowlist proceeds iff the sender is allowed and never
\* requests a pairing code; pairing proceeds iff the sender is allowed and
\* otherwise terminates after requesting a pairing code.
C6_PolicyGate ==
    \A h \in Handlers :
        LET r == Rec(h)
            allowed == isAllowed(r.msg.author)
            requested == r.upsert \in {"true", "false", "threw"}
        IN  AtDmGate(r) =>
              /\ cfg.dmPolicy = "open" => r.gate = "pass" /\ ~requested
              /\ cfg.dmPolicy = "disabled" => r.gate = "dm_disabled" /\ ~requested
              /\ cfg.dmPolicy = "allowlist" =>
                    /\ r.gate = "pass" <=> allowed
                    /\ r.gate # "pass" => r.gate = "dm_denied"
                    /\ ~requested
              /\ cfg.dmPolicy = "pairing" =>
                    /\ r.gate = "pass" <=> allowed
                    /\ r.gate # "pass" => r.gate = "dm_denied" /\ requested

\* C6, amended: as C6, but under pairing a sender who is not allowed is
\* requested a pairing code only when the runtime has upsertPairingRequest;
\* when it has not, the message terminates with no request.
C6_PolicyGateAmended ==
    \A h \in Handlers :
        LET r == Rec(h)
            allowed == isAllowed(r.msg.author)
            requested == r.upsert \in {"true", "false", "threw"}
        IN  AtDmGate(r) =>
              /\ cfg.dmPolicy = "open" => r.gate = "pass" /\ r.upsert = "no"
              /\ cfg.dmPolicy = "disabled" => r.gate = "dm_disabled" /\ r.upsert = "no"
              /\ cfg.dmPolicy = "allowlist" =>
                    /\ r.gate = "pass" <=> allowed
                    /\ r.gate # "pass" => r.gate = "dm_denied"
                    /\ r.upsert = "no"
              /\ cfg.dmPolicy = "pairing" =>
                    /\ r.gate = "pass" <=> allowed
                    /\ r.gate = "pass" => r.upsert = "no"
                    /\ r.gate # "pass" =>
                          /\ r.gate = "dm_denied"
                          /\ requested \/ r.upsert = "absent"
                          /\ r.pc \in {"upsert", "pairSend", "done"}
                          /\ r.stA = "no" /\ r.stB = "no" /\ r.stC = "no"

\* under pairing, a sender who is not allowed was turned away without a
\* request, the runtime having no upsertPairingRequest
C6_Witness ==
    \E h \in Handlers :
        /\ cfg.dmPolicy = "pairing" /\ AtDmGate(Rec(h))
        /\ ~isAllowed(Rec(h).msg.author)
        /\ Rec(h).upsert = "absent" /\ Rec(h).pc = "done"

StaleMsg(m) ==
    m.timestamp # <<>> /\ m.timestamp[1] < StartupMs - startupGraceMs

\* C7: a message whose timestamp is before session start minus the grace
\* window terminates before the policy gate: no pairing request, no outbound
\* message, no typing signal, no dispatch stage.
C7_StaleTerminates ==
    \A h \in Handlers :
        (Rec(h).pc # "idle" /\ StaleMsg(Rec(h).msg)) =>
            /\ Rec(h).pc = "done"
            /\ Rec(h).gate \in {"self", "bot", "stale"}
            /\ NoSideWork(Rec(h))

\* a stale direct message of a sender who is not allowed, under pairing, was
\* dropped by the staleness filter
C7_Witness ==
    \E h \in Handlers :
        /\ StaleMsg(Rec(h).msg) /\ Rec(h).gate = "stale" /\ Rec(h).pc = "done"
        /\ ~Rec(h).msg.guild /\ cfg.dmPolicy = "pairing"
        /\ ~isAllowed(Rec(h).msg.author)

\* C8: a message whose sender is the session's own identity or a bot account
\* ends at once with no outbound call, no pairing request, no dispatch stage
\* and no log line, and nothing happens for it afterwards.
C8_SelfBotSuppressed ==
    [][\A h \in Handlers :
          /\ ( /\ hs[h].pc = "idle" /\ hs'[h].pc # "idle"
               /\ hs'[h].msg.author = selfUserId \/ hs'[h].msg.bot )
             => ( /\ hs'[h].pc = "done"
                  /\ hs'[h].gate \in {"self", "bot"}
                  /\ NoSideWork(hs'[h])
                  /\ hs'[h].logs = {} /\ hs'[h].rtErrors = 0 )
          /\ (hs[h].pc = "done" /\ hs[h].gate \in {"self", "bot"}) => hs'[h] = hs[h]]_vars

\* a non-empty direct message of the session's own identity, under the open
\* policy, was suppressed; so was one of a bot account
C8_Witness ==
    /\ cfg.dmPolicy = "open"
    /\ \E h \in Handlers :
          /\ Rec(h).pc = "done" /\ ~Rec(h).msg.guild /\ Rec(h).msg.content = <<"hi">>
          /\ ~StaleMsg(Rec(h).msg)
          /\ \/ Rec(h).gate = "self" /\ Rec(h).msg.author = selfUserId /\ ~Rec(h).msg.bot
             \/ Rec(h).gate = "bot" /\ Rec(h).msg.author # selfUserId /\ Rec(h).msg.bot

HasPairingReply(r) == \E i \in DOMAIN r.sends : r.sends[i].kind = "pairing"
PairReplies(u) ==
    Cardinality({h \in Handlers : Rec(h).msg.author = u /\ HasPairingReply(Rec(h))})

\* C9: under pairing, the instructional reply is sent only for a message whose
\* upsertPairingRequest returned created = true, and a sender whose request
\* was not approved has been sent at most one, however the handling of the
\* sender's messages interleaves.
C9_OnePairingReply ==
    /\ \A h \in Handlers : HasPairingReply(Rec(h)) => Rec(h).upsert = "true"
    /\ \A u \in Users : approved[u] = 0 => PairReplies(u) <= 1

\* two messages of one sender were both requested a code before either
\* continued; the first got the reply, the second ended without one
C9_Witness ==
    \E h1, h2 \in Handlers :
        /\ h1 # h2 /\ Rec(h1).msg.author = Rec(h2).msg.author
        /\ approved[Rec(h1).msg.author] = 0
        /\ Rec(h1).upsert = "true" /\ HasPairingReply(Rec(h1)) /\ Rec(h1).pc = "done"
        /\ Rec(h2).upsert = "false" /\ Rec(h2).sends = <<>> /\ Rec(h2).pc = "done"

\* C10: a direct message denied by the policy gate reaches no dispatch stage,
\* no typing signal and no media fetch, and nothing is sent, except the one
\* pairing reply to the message's own channel when created = true.
C10_DeniedDmSilent ==
    \A h \in Handlers :
        LET r == Rec(h) IN
        (~r.msg.guild /\ r.gate \in {"dm_disabled", "dm_denied"}) =>
            /\ r.stA = "no" /\ r.stB = "no" /\ r.stC = "no"
            /\ r.typings = 0 /\ r.fetches = 0 /\ r.interval = "none"
            /\ r.sends = IF /\ cfg.dmPolicy = "pairing" /\ r.upsert = "true"
                            /\ r.pc \in {"pairSend", "done"}
                         THEN <<PairingReply(r)>> ELSE <<>>

\* a denied direct message has ended with its one pairing reply
C10_Witness ==
    \E h \in Handlers :
        /\ ~Rec(h).msg.guild /\ Rec(h).gate = "dm_denied" /\ Rec(h).pc = "done"
        /\ Rec(h).upsert = "true" /\ Rec(h).sends = <<PairingReply(Rec(h))>>

\* the pairing request or the pairing reply of the invocation has thrown
PairingThrew(r) == r.upsert = "threw" \/ r.pairSent = "failed"

\* C11: under pairing, when upsertPairingRequest or the sendMessage of the
\* pairing reply throws, the failure is logged, the message stays denied
\* with no dispatch stage, the catch block of the handler and runtime.error
\* are not reached, and the handler's promise resolves.
C11_PairingFailureContained ==
    \A h \in Handlers :
        LET r == Rec(h) IN
        (r.pc # "upsert" /\ PairingThrew(r)) =>
            /\ r.pc = "done"
            /\ "pairing reply failed" \in r.logs
            /\ r.gate = "dm_denied"
            /\ r.stA = "no" /\ r.stB = "no" /\ r.stC = "no"
            /\ r.typings = 0 /\ r.fetches = 0 /\ ~r.routed
            /\ ~r.caught /\ r.rtErrors = 0

\* one message ended after its pairing request threw, another after the
\* sendMessage of its pairing reply threw
C11_Witness ==
    \E h1, h2 \in Handlers :
        /\ cfg.dmPolicy = "pairing"
        /\ Rec(h1).pc = "done" /\ Rec(h1).upsert = "threw" /\ Rec(h1).sends = <<>>
        /\ Rec(h2).pc = "done" /\ Rec(h2).upsert = "true" /\ Rec(h2).pairSent = "failed"
        /\ Rec(h2).sends = <<PairingReply(Rec(h2))>>

\* the text holds a token that the pattern built from the identity matches
MentionsIdentity(content, self) ==
    \E i \in DOMAIN content : content[i] \in {"<@" \o self \o ">", "<@!" \o self \o ">"}

\* C12: a message of a guild channel that, under the group policy open,
\* matches neither the pattern of the session's identity nor a configured
\* mention pattern, and every message of a guild channel under the group
\* policy disabled, ends at once: no dispatch stage, no typing signal, no
\* outbound message; nothing happens for it afterwards.
C12_GroupGate ==
    [][\A h \in Handlers :
          /\ ( /\ hs[h].pc = "idle" /\ hs'[h].pc # "idle"
               /\ hs'[h].msg.guild
               /\ \/ cfg.groupPolicy = "disabled"
                  \/ /\ cfg.groupPolicy = "open"
                     /\ selfUserId = "null" \/ ~MentionsIdentity(hs'[h].msg.content, selfUserId)
                     /\ ~hs'[h].cfgMention )
             => ( /\ hs'[h].pc = "done"
                  /\ hs'[h].gate \in {"grp_disabled", "no_mention"}
                  /\ NoSideWork(hs'[h]) )
          /\ (hs[h].pc = "done" /\ hs[h].gate \in {"grp_disabled", "no_mention"})
             => hs'[h] = hs[h]]_vars

\* with the identity known, a message of a guild channel that mentions
\* another user only was dropped under the group policy open
C12_Witness ==
    \E h \in Handlers :
        /\ cfg.groupPolicy = "open" /\ selfUserId = BotId
        /\ Rec(h).msg.guild /\ Rec(h).msg.content = <<"<@1>", "ws", "hi">>
        /\ Rec(h).gate = "no_mention" /\ Rec(h).pc = "done" /\ NoSideWork(Rec(h))

\* C13: a message of a guild channel handled while selfUserId is still null
\* has hasSelfMention false and passes the mention gate iff the configured
\* mention patterns match; the decision taken for an invocation is never
\* changed afterwards, in particular not by a Ready event that arrives while
\* the invocation is suspended.
C13_GateBeforeReady ==
    [][\A h \in Handlers :
          /\ ( /\ hs[h].pc = "idle" /\ hs'[h].pc # "idle"
               /\ selfUserId = "null"
               /\ hs'[h].msg.guild /\ hs'[h].gate \in {"no_mention", "pass"} )
             => ( /\ ~hs'[h].selfMention
                  /\ hs'[h].gate = "pass" <=> hs'[h].cfgMention )
          /\ hs[h].pc # "idle"
             => ( /\ hs'[h].gate = hs[h].gate
                  /\ hs'[h].selfMention = hs[h].selfMention
                  /\ hs'[h].cfgMention = hs[h].cfgMention
                  /\ (hs[h].msg.guild /\ hs[h].gate # "pass") => hs'[h] = hs[h] )]_vars

\* a message that mentions the identity passed on the configured patterns
\* alone, and the Ready event arrived while it waits for fetchRemoteMedia
C13_Witness ==
    \E h \in Handlers :
        /\ Rec(h).msg.guild /\ MentionsIdentity(Rec(h).msg.content, BotId)
        /\ Rec(h).gate = "pass" /\ ~Rec(h).selfMention /\ Rec(h).cfgMention
        /\ Rec(h).pc = "fetch" /\ selfUserId = BotId

\* C14: of the attachments of a message that passed the gate at most the
\* first is fetched; when fetchRemoteMedia or saveMediaBuffer throws (as for
\* a buffer above the byte ceiling), the failure is logged, routing, typing
\* and the envelope follow as for a message without media, the envelope has
\* no media path, stage a is entered, and the catch block of the handler is
\* entered only if building the envelope throws after typing has started.
C14_MediaFailureContained ==
    \A h \in Handlers :
        LET r == Rec(h) IN
        /\ r.fetches <= 1
        /\ r.fetches = 1 => r.fetchedAtt = 1 /\ r.msg.attachments >= 1
        /\ r.mediaErr =>
              /\ "media download failed" \in r.logs
              /\ ~r.mediaPath
              /\ r.routed /\ r.typings >= 1 /\ r.interval # "none"
              /\ IF r.caught
                 THEN r.ctx = <<>> /\ r.stA = "no"
                 ELSE /\ r.ctx # <<>> /\ r.ctx[1].MediaPath = "undefined"
                      /\ r.stA # "no"

\* the second of two attachments was not fetched; saving the first, one
\* byte above the ceiling, threw; the message is with the dispatcher of
\* stage a, its envelope without media path
C14_Witness ==
    \E h \in Handlers :
        LET r == Rec(h) IN
        /\ r.msg.attachments = 2 /\ r.fetches = 1 /\ r.fetchedAtt = 1
        /\ cfg.mediaMaxMb = <<1>>
        /\ r.mediaErr /\ r.bufBytes = 1024 * 1024 + 1 /\ r.bufBytes > mediaMaxBytes(cfg)
        /\ r.pc = "dispA" /\ r.typingActive
        /\ r.ctx # <<>> /\ r.ctx[1].MediaPath = "undefined"

\* the first 500 characters of a text
First500(str) == [i \in 1..(IF Len(str) < 500 THEN Len(str) ELSE 500) |-> str[i]]

\* C15: when both buffered dispatchers were absent or threw, the handler
\* calls enqueueSystemEvent once, with the cleaned text cut to 500
\* characters, makes no sendMessage call of its own, and its promise
\* resolves; when enqueueSystemEvent is absent or throws, nothing is
\* enqueued, the condition is logged, and the promise resolves as well.
C15_LastResort ==
    \A h \in Handlers :
        LET r == Rec(h) IN
        (r.pc \in Settled /\ Unsuccessful(r.stA) /\ Unsuccessful(r.stB)) =>
            /\ r.pc = "done" /\ ~r.caught /\ r.rtErrors = 0
            /\ r.stC \in {"ok", "failed", "absent"}
            /\ r.stC = "ok" =>
                  /\ r.sysEvents = 1 /\ r.sysTexts = <<First500(r.cleanBody)>>
                  /\ "injected system event" \in r.logs
            /\ r.stC = "failed" =>
                  /\ r.sysEvents = 0 /\ r.sysTexts = <<>>
                  /\ "last resort dispatch failed" \in r.logs
            /\ r.stC = "absent" =>
                  /\ r.sysEvents = 0 /\ r.sysTexts = <<>>
                  /\ "no dispatch mechanism available" \in r.logs
            /\ \A i \in DOMAIN r.sends :
                  /\ r.sends[i].kind = "a" => r.stA = "failed"
                  /\ r.sends[i].kind = "b" => r.stB = "failed"
                  /\ r.sends[i].kind \in {"a", "b"}

\* a text of 501 characters after a mention went to the system event, the
\* mention stripped and the rest cut to 500, after stage a threw and stage b
\* was absent; nothing was sent
C15_Witness ==
    \E h \in Handlers :
        LET r == Rec(h) IN
        /\ r.pc = "done" /\ r.stA = "failed" /\ r.stB = "absent" /\ r.stC = "ok"
        /\ r.msg.content[1] = "<@9>" /\ r.cleanBody = Chars(501)
        /\ r.sysTexts = <<Chars(500)>>
        /\ r.sends = <<>> /\ r.sysEvents = 1

\* the configuration enables reply threading
ReplyThreading == cfg.replyToMode # <<>> /\ cfg.replyToMode # <<"off">>

\* C16: every call of a dispatcher's deliver callback, of stage a as of
\* stage b, calls sendMessage for the channel of the inbound message, with
\* replyTo (and the message_reference of the request) the id of the inbound
\* message when replyToMode is not off, and without replyTo otherwise.
C16_DeliverReplyTo ==
    \A h \in Handlers :
        \A i \in DOMAIN Rec(h).sends :
            LET r == Rec(h)
                call == r.sends[i]
            IN  call.kind \in {"a", "b"} =>
                  /\ call.to = r.msg.channel_id
                  /\ ReplyThreading =>
                        call.replyTo = r.msg.id /\ call.reference = <<r.msg.id>>
                  /\ ~ReplyThreading =>
                        call.replyTo = "undefined" /\ call.reference = <<>>

\* under replyToMode first, the deliver callback of stage b sent to the
\* channel of a message that replies to m0, with replyTo the message's id
C16_Witness ==
    \E h \in Handlers :
        LET r == Rec(h) IN
        /\ cfg.replyToMode = <<"first">> /\ r.msg.referenced_message = <<"m0">>
        /\ r.stA = "failed" /\ r.pc = "dispB"
        /\ r.sends = <<[to |-> r.msg.channel_id, kind |-> "b", replyTo |-> "m1",
                        reference |-> <<"m1">>]>>

\* C17: the envelope handed to the dispatcher has a reply-target id only if
\* replyToMode is enabled: with replyToMode off (or not set) its ReplyToId
\* is absent even when the inbound message references another message.
C17_EnvelopeReplyTo ==
    \A h \in Handlers :
        (Rec(h).ctx # <<>> /\ ~ReplyThreading) => Rec(h).ctx[1].ReplyToId = "undefined"

\* C17, amended: the ReplyToId of the envelope is the id of the message that
\* the inbound message references, present exactly when it references one,
\* whatever replyToMode is.
C17_EnvelopeReplyToAmended ==
    \A h \in Handlers :
        LET r == Rec(h) IN
        r.ctx # <<>> =>
            /\ r.msg.referenced_message = <<>> => r.ctx[1].ReplyToId = "undefined"
            /\ r.msg.referenced_message # <<>> =>
                  r.ctx[1].ReplyToId = r.msg.referenced_message[1]
            /\ r.ctx[1].MessageSid = r.msg.id

\* with replyToMode off, the envelope of a message that replies to m0 is
\* with the dispatcher of stage a, its ReplyToId m0
C17_Witness ==
    \E h \in Handlers :
        /\ cfg.replyToMode = <<"off">> /\ Rec(h).msg.referenced_message = <<"m0">>
        /\ Rec(h).pc = "dispA" /\ Rec(h).ctx # <<>> /\ Rec(h).ctx[1].ReplyToId = "m0"

\* monitorFluxerProvider has returned in a session whose signal is aborted
ReturnedOnAbort == acct = "resolved" /\ signal = "aborted"

\* C18: when the cancellation signal of a session is or becomes aborted,
\* gateway.destroy is called for it, also when the signal was aborted
\* before the listener was added and the gateway connected; once the
\* monitor call has returned because of the cancellation, the gateway is
\* not connected.
C18_AbortDestroys ==
    ReturnedOnAbort => destroys >= 1 /\ gateway \in {"destroying", "destroyed"}

\* C19: after cancellation the promise of monitorFluxerProvider resolves
\* only when the teardown has completed: it is not resolved while
\* gateway.destroy is in progress or was not called.
C19_ResolvesAfterTeardown ==
    ReturnedOnAbort => destroys >= 1 /\ gateway = "destroyed"

\* the token is not set, or holds nothing but whitespace
Blank(tok) == tok = <<>> \/ \A i \in DOMAIN tok[1] : tok[1][i] = "ws"

\* C20: startAccount with a token that is not set or blank rejects with
\* the token error before anything else: initRest is not called, nothing
\* is probed, no gateway is built or connected, no handler or listener is
\* registered. The adapter raises no other error of its own at the start,
\* and after a failed probe the session still starts.
C20_TokenRequired ==
    /\ (acct # "idle" /\ Blank(token)) =>
          /\ acct = "rejected" /\ error = "Fluxer bot token is required"
          /\ ~restClient /\ probe = "no"
          /\ gateway = "none" /\ destroys = 0
          /\ ~started /\ listeners = {} /\ selfUserId = "null"
    /\ error \in {"none", "Fluxer bot token is required", "gateway.connect rejected"}
    /\ error = "Fluxer bot token is required" => Blank(token)
    /\ acct = "rejected" => error # "none"
    /\ probe = "failed" =>
          /\ gateway # "none" /\ restClient
          /\ acct \in {"readStore", "connect", "keepAlive", "resolved", "rejected"}
          /\ acct = "rejected" => error = "gateway.connect rejected"

\* the start of an account whose token is whitespace was rejected, with
\* nothing initialised
C20_Witness ==
    /\ token = << <<"ws">> >> /\ registered
    /\ acct = "rejected" /\ error = "Fluxer bot token is required"
    /\ ~restClient /\ probe = "no" /\ gateway = "none" /\ ~started

----------------------------------------------------------------------------
\* the typing indicator of the invocation is on
TypingOn(r) == r.typingActive /\ r.interval = "set"

\* what the invocation has sent went to the conversation of its own message
OwnConversation(r) ==
    /\ \A i \in 1..Len(r.sends) :
           /\ r.sends[i].to = r.msg.channel_id
           /\ r.sends[i].reference \in {<<>>, <<r.msg.id>>}
    /\ r.typingTo \subseteq {r.msg.channel_id}
    /\ r.ctx # <<>> => r.ctx[1].To = r.msg.channel_id /\ r.ctx[1].MessageSid = r.msg.id

\* C21: with messages handled interleaved at the awaits, a step in which one
\* invocation stops its typing indicator leaves the typing flag and the timer
\* of every other invocation as they were; an invocation sets at most one
\* typing timer; and its replies, its typing signals and its envelope are
\* addressed to the conversation of its own message.
C21_MessageScoped ==
    [][ /\ \A h \in Handlers : \A g \in Handlers \ {h} :
              hs'[h].stops > hs[h].stops =>
                  /\ hs'[g].typingActive = hs[g].typingActive
                  /\ hs'[g].interval = hs[g].interval
        /\ \A h \in Handlers :
              /\ hs'[h].timers <= 1
              /\ hs'[h].typingActive => hs'[h].timers = 1
              /\ OwnConversation(hs'[h]) ]_vars

\* two invocations for two conversations have both replied; the first has
\* stopped its typing indicator while that of the second is still on
C21_Witness ==
    /\ Rec("h1").msg.channel_id # Rec("h2").msg.channel_id
    /\ Rec("h1").stops = 1 /\ Rec("h1").interval = "cleared" /\ Rec("h1").pc = "done"
    /\ Rec("h2").pc = "dispA" /\ TypingOn(Rec("h2")) /\ Rec("h2").typings = 2
    /\ Rec("h1").sends # <<>> /\ Rec("h2").sends # <<>>

----------------------------------------------------------------------------
----------------------------------------------------------------------------
\* the step is one of the Ready handler: it assigns the id of the Ready
\* event and nothing else
ReadyStep ==
    /\ gateway = "connected"
    /\ selfUserId' = BotId
    /\ hs' = hs
    /\ lifecycle' = lifecycle
    /\ <<cfg, started, storeAllowFrom, effectiveAllowFrom>>'
           = <<cfg, started, storeAllowFrom, effectiveAllowFrom>>

\* C23: selfUserId is null from the start of the session until the gateway
\* is connected, whatever probeBot returned; only a step of the Ready
\* handler changes it, no step of the MessageCreate handler and none of
\* startAccount does; and while it is null no message is taken for the
\* bot's own, none is taken to mention the bot, and no mention is stripped
\* from a body.
C23_IdentityFromReadyOnly ==
    [][ /\ gateway # "connected" => selfUserId = "null"
        /\ gateway' # "connected" => selfUserId' = "null"
        /\ selfUserId' # selfUserId => ReadyStep
        /\ \A h \in Handlers :
              hs'[h] # hs[h] /\ hs[h].pc = "idle" /\ selfUserId = "null" =>
                  /\ hs'[h].gate # "self"
                  /\ ~hs'[h].selfMention
                  /\ hs'[h].ctx # <<>> =>
                        hs'[h].ctx[1].BodyForAgent = hs'[h].ctx[1].RawBody ]_vars

\* probeBot has reported the bot, the gateway is connected and no Ready
\* event has come; a message of the guild written under the bot's own id and
\* mentioning the bot has passed the gate through a configured pattern, its
\* mention kept in the body
C23_Witness ==
    /\ probe = "ok" /\ gateway = "connected" /\ selfUserId = "null"
    /\ Rec("h1").msg.author = BotId /\ Rec("h1").msg.guild
    /\ Rec("h1").gate = "pass" /\ ~Rec("h1").selfMention /\ Rec("h1").cfgMention
    /\ Rec("h1").ctx # <<>>
    /\ Rec("h1").ctx[1].BodyForAgent = <<"<@9>", "ws", "hi">>

----------------------------------------------------------------------------
\* the message was ended by a filter or by the policy gate
Filtered(r) ==
    r.gate \in {"self", "bot", "stale", "empty", "dm_disabled", "dm_denied",
                "grp_disabled", "no_mention"}

\* media fetch, route resolution, typing, envelope construction or dispatch
SideWork(r) ==
    \/ r.fetches > 0 \/ r.fetchedAtt > 0 \/ r.mediaErr \/ r.mediaPath
    \/ r.routed
    \/ r.typings > 0 \/ r.typingTo # {} \/ r.timers > 0 \/ r.interval # "none"
    \/ r.ctx # <<>>
    \/ r.stA # "no" \/ r.stB # "no" \/ r.stC # "no" \/ r.sysEvents > 0

\* a direct message of whitespace only, without attachment
BlankDm(m) == ~m.guild /\ trim(m.content) = <<>> /\ m.attachments = 0

\* C24: every handled message either was ended by a filter or by the policy
\* gate, or has passed them; one that was ended has had no media fetch, no
\* route resolution, no typing signal, no envelope and no dispatch, whatever
\* came after; and a direct message of whitespace only without attachment has
\* ended at a filter with no pairing request and no reply, under every
\* policy and for every sender.
C24_NoSideWorkBeforeGate ==
    \A h \in Handlers :
        LET r == Rec(h) IN
        r.pc # "idle" =>
            /\ Filtered(r) \/ r.gate = "pass"
            /\ Filtered(r) => ~SideWork(r) /\ r.pc \in {"upsert", "pairSend", "done"}
            /\ r.upsert # "no" => r.gate = "dm_denied" /\ cfg.dmPolicy = "pairing"
            /\ BlankDm(r.msg) =>
                  /\ r.gate \in {"self", "bot", "stale", "empty"}
                  /\ r.pc = "done"
                  /\ r.upsert = "no" /\ r.sends = <<>> /\ r.msg.author \notin pending

\* under the pairing policy, a direct message of whitespace only without
\* attachment from a sender who is not allowed has ended at the filter of
\* empty messages
C24_Witness ==
    /\ cfg.dmPolicy = "pairing" /\ ~isAllowed(Rec("h1").msg.author)
    /\ BlankDm(Rec("h1").msg)
    /\ Rec("h1").pc = "done" /\ Rec("h1").gate = "empty"
    /\ Rec("h1").upsert = "no" /\ pending = {}

----------------------------------------------------------------------------
\* monitorFluxerProvider is past the await of gateway.connect, which resolved
Connected == acct \in {"keepAlive", "resolved"}

\* C25: in a session that was given a cancellation signal and whose
\* gateway.connect resolved, the promise of monitorFluxerProvider is pending
\* exactly while the signal is not aborted: it resolves in no step that
\* leaves the signal not aborted, it resolves in the step that aborts the
\* signal, and it resolves when connect resolves under an aborted signal.
C25_PendingUntilAbort ==
    [][ signal # "absent" =>
          /\ Connected' => (acct' = "resolved" <=> signal' = "aborted")
          /\ (acct = "keepAlive" /\ signal' = "idle") =>
                acct' = "keepAlive" /\ "resolve" \in listeners'
          /\ (acct = "keepAlive" /\ signal' = "aborted") => acct' = "resolved"
          /\ acct = "resolved" => acct' = "resolved" ]_vars

\* the session was connected and has seen a Ready event; the host has then
\* aborted the signal and the promise has resolved
C25_Witness ==
    /\ signal = "aborted" /\ acct = "resolved"
    /\ selfUserId = BotId /\ destroys = 1 /\ gateway = "destroying"
    /\ listeners = {}

====
